---- MODULE Spec2Model ----
(***************************************************************************)
(* Model of src/parse_fstring.rs of printf-log-formatter: the resolver     *)
(* parse_formatted_value, the segment walker parse_fstring and the entry   *)
(* point fix_fstring.                                                      *)
(*                                                                         *)
(* Text is a sequence of one-character strings, so that formatting,        *)
(* joining and quoting are computed character by character.  A result of   *)
(* the resolver is a record [ok, s, stderr, calls]: ok is Ok/Err of the    *)
(* Rust Result, s the String, stderr the rows written by eprintln! while   *)
(* it ran, calls the recursive calls it made (caller, callee, arguments).  *)
(***************************************************************************)
EXTENDS Integers, Sequences, FiniteSets, TLC

VARIABLES pc, quotes, node, postfix, in_call, out,
          values, idx, string, args, stderr, calls, result

vars == <<pc, quotes, node, postfix, in_call, out,
          values, idx, string, args, stderr, calls, result>>

-----------------------------------------------------------------------------
(* Bounds of the model *)

MaxDepth == 2

MaxArgs == 2

MaxSegs == 3

-----------------------------------------------------------------------------
(* Text helpers *)

RECURSIVE Join(_, _)
Join(strs, sep) ==
    IF strs = <<>> THEN <<>>
    ELSE IF Len(strs) = 1 THEN strs[1]
    ELSE strs[1] \o sep \o Join(Tail(strs), sep)

CommaSpace == <<",", " ">>

Placeholder == <<"%", "s">>

-----------------------------------------------------------------------------
(* The syntax tree (rustpython_parser::ast::Expr): node is `kind`, and    *)
(* location.row() is `row`.                                                *)

Name(id, row) == [kind |-> "Name", id |-> id, row |-> row]

Attribute(value, attr, row) ==
    [kind |-> "Attribute", value |-> value, attr |-> attr, row |-> row]

Constant(value, row) == [kind |-> "Constant", value |-> value, row |-> row]

Keyword(arg, value) == [arg |-> arg, value |-> value]

Call(func, call_args, keywords, row) ==
    [kind |-> "Call", func |-> func, args |-> call_args,
     keywords |-> keywords, row |-> row]

BinOp(left, op, right, row) ==
    [kind |-> "BinOp", left |-> left, op |-> op, right |-> right, row |-> row]

Subscript(value, slice, row) ==
    [kind |-> "Subscript", value |-> value, slice |-> slice, row |-> row]

Comprehension(target, iter, ifs, is_async) ==
    [target |-> target, iter |-> iter, ifs |-> ifs, is_async |-> is_async]

ListComp(elt, generators, row) ==
    [kind |-> "ListComp", elt |-> elt, generators |-> generators, row |-> row]

DictComp(key, value, generators, row) ==
    [kind |-> "DictComp", key |-> key, value |-> value,
     generators |-> generators, row |-> row]

FormattedValue(value, row) ==
    [kind |-> "FormattedValue", value |-> value, row |-> row]

\* a variant the module has no arm for
Lambda(row) == [kind |-> "Lambda", row |-> row]

StrC(s) == [t |-> "Str", s |-> s]

IntC(n) == [t |-> "Int", n |-> n]

BoolC(b) == [t |-> "Bool", b |-> b]

NoneC == [t |-> "None"]

Quotes == {"single", "double"}

-----------------------------------------------------------------------------
(* Collaborators outside parse_fstring.rs *)

\* Quotes::char
QuoteChar(q) == IF q = "single" THEN <<"'">> ELSE <<"\"">>

Digits == <<"0", "1", "2", "3", "4", "5", "6", "7", "8", "9">>

RECURSIVE IntToText(_)
IntToText(n) ==
    IF n < 10 THEN <<Digits[n + 1]>>
    ELSE IntToText(n \div 10) \o <<Digits[(n % 10) + 1]>>

\* crate::ast::constant_to_string: the textual source form, never quoted
constant_to_string(value) ==
    CASE value.t = "Str" -> value.s
      [] value.t = "Int" -> IntToText(value.n)
      [] value.t = "Bool" -> IF value.b THEN <<"T", "r", "u", "e">>
                             ELSE <<"F", "a", "l", "s", "e">>
      [] value.t = "None" -> <<"N", "o", "n", "e">>

\* crate::ast::operator_to_string
operator_to_string(op) ==
    CASE op = "Add" -> <<"+">>
      [] op = "Sub" -> <<"-">>
      [] op = "Mult" -> <<"*">>
      [] op = "Div" -> <<"/">>

\* crate::parse_format::get_args_and_keywords: the positional arguments as
\* strings and the keyword arguments as (key, constant value) pairs.  The
\* model's call arguments are names and constants, which it renders as their
\* source text.
ArgText(arg) ==
    IF arg.kind = "Name" THEN arg.id ELSE constant_to_string(arg.value)

get_args_and_keywords(call_args, keywords) ==
    [ok |-> TRUE,
     f_args |-> [i \in 1..Len(call_args) |-> ArgText(call_args[i])],
     f_named_args |-> [i \in 1..Len(keywords) |->
                          [key |-> keywords[i].arg,
                           value |-> keywords[i].value.value]]]

-----------------------------------------------------------------------------
(* Results: Rust's Result<String> plus what the call wrote and called *)

Ok(s) == [ok |-> TRUE, s |-> s, stderr |-> <<>>, calls |-> <<>>]

\* eprintln!("Failed to parse `{}` line {}. ...", filename, row); bail!("")
Bail(row) == [ok |-> FALSE, s |-> <<>>, stderr |-> <<row>>, calls |-> <<>>]

\* Cat without the `?`: b is evaluated after a's Err too
Cat_without_question_mark(a, b) ==
    [ok |-> a.ok /\ b.ok,
     s |-> IF a.ok /\ b.ok THEN a.s \o b.s ELSE <<>>,
     stderr |-> a.stderr \o b.stderr,
     calls |-> a.calls \o b.calls]

\* b is evaluated after a returned Ok (the `?` operator returns a's Err),
\* and the strings are put together in that order
Cat(a, b) ==
    IF ~a.ok THEN a
    ELSE [ok |-> b.ok,
          s |-> IF b.ok THEN a.s \o b.s ELSE <<>>,
          stderr |-> a.stderr \o b.stderr,
          calls |-> a.calls \o b.calls]

RECURSIVE CatAll(_)
CatAll(rs) ==
    IF Len(rs) = 1 THEN rs[1]
    ELSE Cat(rs[1], CatAll(Tail(rs)))

-----------------------------------------------------------------------------
(* parse_formatted_value, arm by arm *)

\* ExprKind::Name
name_arm(id, pfx) ==
    IF pfx = <<>> THEN id ELSE id \o <<".">> \o pfx

\* attribute_postfix with the attr put behind the postfix
attribute_postfix_appended(attr, pfx) ==
    IF pfx = <<>> THEN attr ELSE pfx \o <<".">> \o attr

\* attribute_postfix that forgets the postfix it received
attribute_postfix_forgotten(attr, pfx) == attr

\* ExprKind::Attribute: the postfix handed to the recursive call
attribute_postfix(attr, pfx) ==
    IF pfx = <<>> THEN attr ELSE attr \o <<".">> \o pfx

\* ExprKind::Constant
constant_arm(value, incall) ==
    IF incall
    THEN QuoteChar(quotes) \o constant_to_string(value) \o QuoteChar(quotes)
    ELSE constant_to_string(value)

\* "{}={}" of a named argument
named_argument(arg) == arg.key \o <<"=">> \o constant_to_string(arg.value)

\* name_call that puts the ", " in front of the named arguments also when
\* there are none
name_call_always_comma(id, f_args, f_named_args) ==
    LET joined == Join([i \in 1..Len(f_named_args) |->
                           named_argument(f_named_args[i])], CommaSpace)
    IN  id \o <<"(">> \o Join(f_args, CommaSpace)
           \o CommaSpace \o joined \o <<")">>

\* ExprKind::Call with an ExprKind::Name callee
name_call(id, f_args, f_named_args) ==
    LET joined == Join([i \in 1..Len(f_named_args) |->
                           named_argument(f_named_args[i])], CommaSpace)
        comma_delimited_named_arguments ==
            IF joined # <<>> THEN CommaSpace \o joined ELSE joined
    IN  id \o <<"(">> \o Join(f_args, CommaSpace)
           \o comma_delimited_named_arguments \o <<")">>

RECURSIVE push_each(_, _)
\* s.push_str(&format!("{},", arg)) for every arg
push_each(s, strs) ==
    IF strs = <<>> THEN s
    ELSE push_each(s \o Head(strs) \o <<",">>, Tail(strs))

\* ExprKind::Call with an ExprKind::Attribute callee: the `call` string
attribute_call(f_args, f_named_args) ==
    LET s0 == <<"(">>
        s1 == push_each(s0, f_args)
        s2 == push_each(s1, [i \in 1..Len(f_named_args) |->
                                named_argument(f_named_args[i])])
    IN  s2 \o <<")">>

RECURSIVE parse_formatted_value(_, _, _)

\* a recursive call of parse_formatted_value, made by the arm of `caller`
\* that received the postfix `recv`
Recurse(caller, recv, value, pfx, incall) ==
    LET r == parse_formatted_value(value, pfx, incall)
    IN  [r EXCEPT !.calls =
            <<[caller |-> caller.kind, recv |-> recv, callee |-> value.kind,
               postfix |-> pfx, in_call |-> incall]>> \o @]

RECURSIVE generators_loop(_, _, _)
\* for generator in generators { s.push_str(" for {} in {}") }
generators_loop(caller, generators, pfx) ==
    IF generators = <<>> THEN Ok(<<>>)
    ELSE LET generator == Head(generators)
         IN  CatAll(<<Ok(<<" ", "f", "o", "r", " ">>),
                      Recurse(caller, pfx, generator.target, pfx, TRUE),
                      Ok(<<" ", "i", "n", " ">>),
                      Recurse(caller, pfx, generator.iter, pfx, TRUE),
                      generators_loop(caller, Tail(generators), pfx)>>)

\* ExprKind::Call
call_arm(value, pfx, incall) ==
    LET split == get_args_and_keywords(value.args, value.keywords)
        func == value.func
    IN  IF ~split.ok THEN [ok |-> FALSE, s |-> <<>>, stderr |-> <<>>, calls |-> <<>>]
        ELSE CASE func.kind = "Name" ->
                    Ok(name_call(func.id, split.f_args, split.f_named_args))
               [] func.kind = "Attribute" ->
                    CatAll(<<Recurse(value, pfx, func.value, pfx, TRUE),
                             Ok(<<".">>),
                             Ok(func.attr),
                             Ok(attribute_call(split.f_args, split.f_named_args))>>)
               [] OTHER -> Bail(func.row)

parse_formatted_value(value, pfx, incall) ==
    CASE value.kind = "Name" -> Ok(name_arm(value.id, pfx))
      [] value.kind = "Attribute" ->
            Recurse(value, pfx, value.value,
                    attribute_postfix(value.attr, pfx), FALSE)
      [] value.kind = "Constant" -> Ok(constant_arm(value.value, incall))
      [] value.kind = "Call" -> call_arm(value, pfx, incall)
      [] value.kind = "BinOp" ->
            CatAll(<<Recurse(value, pfx, value.left, pfx, FALSE),
                     Ok(<<" ">>),
                     Ok(operator_to_string(value.op)),
                     Ok(<<" ">>),
                     Recurse(value, pfx, value.right, pfx, FALSE)>>)
      [] value.kind = "Subscript" ->
            CatAll(<<Recurse(value, pfx, value.value, pfx, FALSE),
                     Ok(<<"[">>),
                     Ok(QuoteChar(quotes)),
                     Recurse(value, pfx, value.slice, pfx, FALSE),
                     Ok(QuoteChar(quotes)),
                     Ok(<<"]">>)>>)
      [] value.kind = "ListComp" ->
            CatAll(<<Ok(<<"[">>),
                     Recurse(value, pfx, value.elt, pfx, TRUE),
                     generators_loop(value, value.generators, pfx),
                     Ok(<<"]">>)>>)
      [] value.kind = "DictComp" ->
            CatAll(<<Ok(<<"{">>),
                     Recurse(value, pfx, value.key, pfx, TRUE),
                     Ok(<<":", " ">>),
                     Recurse(value, pfx, value.value, pfx, TRUE),
                     generators_loop(value, value.generators, pfx),
                     Ok(<<"}">>)>>)
      [] OTHER -> Bail(value.row)

-----------------------------------------------------------------------------
(* parse_fstring and fix_fstring *)

\* parse_fstring with args.insert(0, ..) for args.push(..)
parse_fstring_insert_front(value, str, as) ==
    CASE value.kind = "Constant" ->
            [ok |-> TRUE, string |-> str \o constant_to_string(value.value),
             args |-> as, stderr |-> <<>>, calls |-> <<>>]
      [] value.kind = "FormattedValue" ->
            LET r == Recurse(value, <<>>, value.value, <<>>, FALSE)
            IN  [ok |-> r.ok, string |-> str \o Placeholder,
                 args |-> IF r.ok THEN <<r.s>> \o as ELSE as,
                 stderr |-> r.stderr, calls |-> r.calls]
      [] OTHER ->
            [ok |-> FALSE, string |-> str, args |-> as, stderr |-> <<value.row>>,
             calls |-> <<>>]

\* one call of parse_fstring(value, &mut string, &mut args)
parse_fstring(value, str, as) ==
    CASE value.kind = "Constant" ->
            [ok |-> TRUE, string |-> str \o constant_to_string(value.value),
             args |-> as, stderr |-> <<>>, calls |-> <<>>]
      [] value.kind = "FormattedValue" ->
            LET r == Recurse(value, <<>>, value.value, <<>>, FALSE)
            IN  [ok |-> r.ok, string |-> str \o Placeholder,
                 args |-> IF r.ok THEN Append(as, r.s) ELSE as,
                 stderr |-> r.stderr, calls |-> r.calls]
      [] OTHER ->
            [ok |-> FALSE, string |-> str, args |-> as, stderr |-> <<value.row>>,
             calls |-> <<>>]

-----------------------------------------------------------------------------
(* Inputs: syntax trees up to MaxDepth levels of nesting, calls of up to   *)
(* MaxArgs arguments, literals of up to MaxSegs segments                   *)

NameX == Name(<<"x">>, 1)

NameY == Name(<<"y">>, 1)

NameI == Name(<<"i">>, 1)

NameK == Name(<<"k">>, 1)

Items == Name(<<"i", "t", "e", "m", "s">>, 1)

StrA == Constant(StrC(<<"a">>), 1)

StrHi == Constant(StrC(<<"h", "i">>), 1)

Int1 == Constant(IntC(1), 1)

Leaves == {NameX, StrA, Int1, Lambda(2)}

\* positional arguments 1, y, 1, y, ... and keywords bar=2, baz=True, ...
ArgPool(i) == IF i % 2 = 1 THEN Int1 ELSE NameY

KwPool(i) ==
    IF i % 2 = 1 THEN Keyword(<<"b", "a", "r">>, Constant(IntC(2), 1))
    ELSE Keyword(<<"b", "a", "z">>, Constant(BoolC(TRUE), 1))

CallShapes ==
    {[args |-> [i \in 1..n |-> ArgPool(i)], keywords |-> [i \in 1..k |-> KwPool(i)]] :
        <<n, k>> \in {p \in (0..MaxArgs) \X (0..MaxArgs) : p[1] + p[2] <= MaxArgs}}

\* the generator lists around an iterable t: plain, filtered (by a name and
\* by an unsupported expression), asynchronous, and second of two
GeneratorLists(t) ==
    {<<Comprehension(NameI, t, <<>>, FALSE)>>,
     <<Comprehension(NameI, t, <<NameK>>, FALSE)>>,
     <<Comprehension(NameI, t, <<Lambda(3)>>, FALSE)>>,
     <<Comprehension(NameI, t, <<>>, TRUE)>>,
     <<Comprehension(NameK, Items, <<>>, FALSE),
       Comprehension(NameI, t, <<>>, FALSE)>>}

\* the attribute taken on t: x.b, x.b.c
AttrOf(t) == IF t.kind = "Attribute" THEN <<"c">> ELSE <<"b">>

\* the trees that have t as a direct child
Wrap(t) ==
    {Attribute(t, AttrOf(t), 1)}
    \cup {Call(t, sh.args, sh.keywords, 1) : sh \in CallShapes}
    \cup {BinOp(t, "Add", Lambda(3), 1), BinOp(NameY, "Sub", t, 1)}
    \cup {Subscript(t, NameK, 1), Subscript(NameY, t, 1)}
    \cup {ListComp(t, <<Comprehension(NameI, Items, <<>>, FALSE)>>, 1)}
    \cup {ListComp(NameI, g, 1) : g \in GeneratorLists(t)}
    \cup {DictComp(t, NameI, <<Comprehension(NameI, Items, <<>>, FALSE)>>, 1),
          DictComp(NameK, t, <<Comprehension(NameK, Items, <<NameK>>, FALSE)>>, 1)}

RECURSIVE Exprs(_)
Exprs(d) ==
    IF d = 0 THEN Leaves
    ELSE LET S == Exprs(d - 1) IN S \cup UNION {Wrap(t) : t \in S}

Postfixes == {<<>>, <<"p">>}

Foo == <<"f", "o", "o">>

Obj == Name(<<"o", "b", "j">>, 1)

\* foo(1, bar=2)
FooCall == Call(Name(Foo, 1), <<Int1>>, <<KwPool(1)>>, 1)

\* obj.foo(1, bar=2)
ObjFooCall == Call(Attribute(Obj, Foo, 1), <<Int1>>, <<KwPool(1)>>, 1)

\* x.y.z
XYZ == Attribute(Attribute(NameX, <<"y">>, 1), <<"z">>, 1)

\* [i for i in items]
ItemsComp == ListComp(NameI, <<Comprehension(NameI, Items, <<>>, FALSE)>>, 1)

\* the expressions the specification gives as examples
Examples == {FooCall, ObjFooCall, XYZ, ItemsComp, StrHi}

\* the interpolated expressions of the literals: x.y, 1, foo(1, bar=2), the
\* failures of each arm, and a comprehension filtered by a lambda
SegExprs ==
    {Attribute(NameX, <<"y">>, 1),
     Int1,
     FooCall,
     Lambda(2),
     Call(Lambda(3), <<>>, <<>>, 2),
     BinOp(Lambda(2), "Add", Lambda(3), 1),
     Subscript(NameX, Attribute(Lambda(3), <<"b">>, 2), 1),
     ListComp(NameI, <<Comprehension(NameI, Items, <<Lambda(3)>>, FALSE)>>, 1)}

\* "count="
CountText == Constant(StrC(<<"c", "o", "u", "n", "t", "=">>), 1)

\* " items"
ItemsText == Constant(StrC(<<" ", "i", "t", "e", "m", "s">>), 1)

Segments ==
    {CountText, ItemsText, Constant(StrC(<<"%", "s">>), 1), Lambda(4)}
    \cup {FormattedValue(e, 1) : e \in SegExprs}

RECURSIVE SegLists(_)
SegLists(n) ==
    IF n = 0 THEN {<<>>}
    ELSE LET S == SegLists(n - 1)
         IN  S \cup {Append(l, v) : l \in {m \in S : Len(m) = n - 1}, v \in Segments}

-----------------------------------------------------------------------------
(* The state machine: the two public functions, called once SETTINGS is set *)

NoNode == [kind |-> "-"]

NoOut == [ok |-> FALSE, s |-> <<>>, stderr |-> <<>>, calls |-> <<>>]

Pending == [tag |-> "Pending"]

None == [tag |-> "None"]

Some(str, as) == [tag |-> "Some", string |-> str, args |-> as]

Init ==
    /\ pc = "idle"
    /\ quotes \in Quotes
    /\ node = NoNode
    /\ postfix = <<>>
    /\ in_call = FALSE
    /\ out = NoOut
    /\ values = <<>>
    /\ idx = 0
    /\ string = <<>>
    /\ args = <<>>
    /\ stderr = <<>>
    /\ calls = <<>>
    /\ result = Pending

\* a caller calls parse_formatted_value(value, postfix, in_call)
CallParseFormattedValue ==
    /\ pc = "idle"
    /\ \E v \in Exprs(MaxDepth) \cup Examples, p \in Postfixes, c \in BOOLEAN :
          LET r == parse_formatted_value(v, p, c)
          IN  /\ node' = v
              /\ postfix' = p
              /\ in_call' = c
              /\ out' = r
              /\ stderr' = stderr \o r.stderr
              /\ calls' = calls \o r.calls
    /\ pc' = "resolved"
    /\ UNCHANGED <<quotes, values, idx, string, args, result>>

\* a caller calls fix_fstring(values): string and args start empty
CallFixFstring ==
    /\ pc = "idle"
    /\ values' \in SegLists(MaxSegs)
    /\ idx' = 1
    /\ string' = <<>>
    /\ args' = <<>>
    /\ pc' = "loop"
    /\ UNCHANGED <<quotes, node, postfix, in_call, out, stderr, calls, result>>

\* one iteration of `for value in values`
fix_fstring_iter ==
    /\ pc = "loop"
    /\ idx <= Len(values)
    /\ LET r == parse_fstring(values[idx], string, args)
       IN  /\ string' = r.string
           /\ args' = r.args
           /\ stderr' = stderr \o r.stderr
           /\ calls' = calls \o r.calls
           /\ IF r.ok
              THEN /\ idx' = idx + 1
                   /\ pc' = "loop"
                   /\ result' = result
              ELSE /\ idx' = idx
                   /\ pc' = "done"
                   /\ result' = None
    /\ UNCHANGED <<quotes, node, postfix, in_call, out, values>>

\* the loop is over: Some((string, args))
fix_fstring_return ==
    /\ pc = "loop"
    /\ idx > Len(values)
    /\ result' = Some(string, args)
    /\ pc' = "done"
    /\ UNCHANGED <<quotes, node, postfix, in_call, out, values, idx, string,
                   args, stderr, calls>>

Next ==
    \/ CallParseFormattedValue
    \/ CallFixFstring
    \/ fix_fstring_iter
    \/ fix_fstring_return

Spec == Init /\ [][Next]_vars

-----------------------------------------------------------------------------
(* What the claims speak of, stated independently of the functions above *)

RECURSIVE Flatten(_)
Flatten(ss) == IF ss = <<>> THEN <<>> ELSE Head(ss) \o Flatten(Tail(ss))

\* the number of occurrences of %s in a text
CountPlaceholders(s) ==
    Cardinality({i \in 1..(Len(s) - 1) : s[i] = "%" /\ s[i + 1] = "s"})

IsSuffix(suf, s) ==
    /\ Len(suf) <= Len(s)
    /\ SubSeq(s, Len(s) - Len(suf) + 1, Len(s)) = suf

SupportedKinds ==
    {"Name", "Attribute", "Constant", "Call", "BinOp", "Subscript",
     "ListComp", "DictComp"}

\* the direct sub-expressions of a node, in source order
Children(n) ==
    CASE n.kind = "Attribute" -> <<n.value>>
      [] n.kind = "Call" ->
            <<n.func>> \o n.args \o [i \in 1..Len(n.keywords) |-> n.keywords[i].value]
      [] n.kind = "BinOp" -> <<n.left, n.right>>
      [] n.kind = "Subscript" -> <<n.value, n.slice>>
      [] n.kind = "ListComp" ->
            <<n.elt>> \o Flatten([i \in 1..Len(n.generators) |->
                <<n.generators[i].target, n.generators[i].iter>> \o n.generators[i].ifs])
      [] n.kind = "DictComp" ->
            <<n.key, n.value>> \o Flatten([i \in 1..Len(n.generators) |->
                <<n.generators[i].target, n.generators[i].iter>> \o n.generators[i].ifs])
      [] n.kind = "FormattedValue" -> <<n.value>>
      [] OTHER -> <<>>

RECURSIVE OutsideGrammar(_)
\* some sub-expression at some depth is outside the supported grammar
OutsideGrammar(n) ==
    \/ n.kind \notin SupportedKinds
    \/ n.kind = "Call" /\ n.func.kind \notin {"Name", "Attribute"}
    \/ \E i \in 1..Len(Children(n)) : OutsideGrammar(Children(n)[i])

\* a segment is literal text, or an interpolation of a supported expression
SegmentOutsideGrammar(v) ==
    CASE v.kind = "Constant" -> FALSE
      [] v.kind = "FormattedValue" -> OutsideGrammar(v.value)
      [] OTHER -> TRUE

RECURSIVE Offending(_)
\* the rows of the nodes the resolver has no rendering for, in source order:
\* a variant without an arm, or the callee of a call that is neither a name
\* nor an attribute
Offending(n) ==
    CASE n.kind \in {"Name", "Constant"} -> <<>>
      [] n.kind = "Attribute" -> Offending(n.value)
      [] n.kind = "Call" ->
            IF n.func.kind = "Name" THEN <<>>
            ELSE IF n.func.kind = "Attribute" THEN Offending(n.func.value)
            ELSE <<n.func.row>>
      [] n.kind = "BinOp" -> Offending(n.left) \o Offending(n.right)
      [] n.kind = "Subscript" -> Offending(n.value) \o Offending(n.slice)
      [] n.kind = "ListComp" ->
            Offending(n.elt) \o Flatten([i \in 1..Len(n.generators) |->
                Offending(n.generators[i].target) \o Offending(n.generators[i].iter)])
      [] n.kind = "DictComp" ->
            Offending(n.key) \o Offending(n.value)
            \o Flatten([i \in 1..Len(n.generators) |->
                Offending(n.generators[i].target) \o Offending(n.generators[i].iter)])
      [] OTHER -> <<n.row>>

SegmentOffending(v) ==
    CASE v.kind = "Constant" -> <<>>
      [] v.kind = "FormattedValue" -> Offending(v.value)
      [] OTHER -> <<v.row>>

OffendingSegments(vs) == Flatten([i \in 1..Len(vs) |-> SegmentOffending(vs[i])])

\* text  or  %s, per segment
Template(vs) ==
    Flatten([i \in 1..Len(vs) |->
        IF vs[i].kind = "Constant" THEN constant_to_string(vs[i].value)
        ELSE Placeholder])

RECURSIVE Interpolations(_)
\* the interpolated expressions of a literal, left to right
Interpolations(vs) ==
    IF vs = <<>> THEN <<>>
    ELSE IF Head(vs).kind = "FormattedValue"
         THEN <<Head(vs).value>> \o Interpolations(Tail(vs))
         ELSE Interpolations(Tail(vs))

Arguments(vs) ==
    [i \in 1..Len(Interpolations(vs)) |->
        parse_formatted_value(Interpolations(vs)[i], <<>>, FALSE).s]

-----------------------------------------------------------------------------
(* The claims *)

\* C1: whenever fix_fstring returns Some((template, arguments)), the number
\* of %s in the template equals the number of arguments, whatever the text
\* of the literal segments.
C1_PlaceholdersMatchArguments ==
    (pc = "done" /\ result.tag = "Some")
        => CountPlaceholders(result.string) = Len(result.args)

\* C2: if a segment, or a sub-expression at any depth of an interpolation,
\* is outside the supported grammar, fix_fstring returns None.
C2_OutsideGrammarReturnsNone ==
    (pc = "done" /\ \E i \in 1..Len(values) : SegmentOutsideGrammar(values[i]))
        => result = None

CountItems == <<CountText, FormattedValue(Attribute(NameX, <<"y">>, 1), 1), ItemsText>>

\* C4: on success the template is, segment by segment, the unquoted text of
\* a literal segment or one %s for an interpolation, and the arguments are
\* the interpolations resolved with empty postfix and in_call = false, left
\* to right; "count=", {x.y}, " items" gives "count=%s items" and ["x.y"].
C4_TemplateAndArguments ==
    /\ (pc = "done" /\ result.tag = "Some") =>
            /\ result.string = Template(values)
            /\ result.args = Arguments(values)
    /\ (pc = "done" /\ values = CountItems) =>
            result = Some(<<"c", "o", "u", "n", "t", "=", "%", "s",
                            " ", "i", "t", "e", "m", "s">>,
                          <<(<<"x", ".", "y">>)>>)

C4_Witness ==
    /\ pc = "done"
    /\ values = <<FormattedValue(FooCall, 1), CountText,
                  FormattedValue(Attribute(NameX, <<"y">>, 1), 1)>>
    /\ result.tag = "Some"
    /\ Len(result.args) = 2

\* C5: a constant is wrapped in the quote character only when in_call is
\* true and it is a string; numbers, booleans and None are never quoted, and
\* no constant is quoted when in_call is false.
C5_OnlyStringsQuotedInCall ==
    (pc = "resolved" /\ node.kind = "Constant") =>
        /\ out.ok
        /\ out.s = IF in_call /\ node.value.t = "Str"
                   THEN QuoteChar(quotes) \o constant_to_string(node.value)
                        \o QuoteChar(quotes)
                   ELSE constant_to_string(node.value)

\* every string of strs followed by ","
EachThenComma(strs) == Flatten([i \in 1..Len(strs) |-> strs[i] \o <<",">>])

KeyValues(keywords) ==
    [i \in 1..Len(keywords) |->
        keywords[i].arg \o <<"=">> \o constant_to_string(keywords[i].value.value)]

Positionals(n) == get_args_and_keywords(n.args, n.keywords).f_args

\* C6: a call of a name renders as name(p1, p2, k1=v1, k2=v2), the keyword
\* part and its ", " only when there is a keyword, with no trailing comma; a
\* call of base.attr renders as the base resolved with the same postfix and
\* in_call = true, then .attr( , every argument followed by "," , and ).
C6_CallRendering ==
    /\ (pc = "resolved" /\ node.kind = "Call" /\ node.func.kind = "Name") =>
            /\ out.ok
            /\ out.s = node.func.id \o <<"(">>
                       \o Join(Positionals(node), <<",", " ">>)
                       \o (IF node.keywords = <<>> THEN <<>>
                           ELSE <<",", " ">> \o Join(KeyValues(node.keywords), <<",", " ">>))
                       \o <<")">>
            /\ (Len(out.s) >= 2 => out.s[Len(out.s) - 1] # ",")
    /\ (pc = "resolved" /\ node.kind = "Call" /\ node.func.kind = "Attribute") =>
            LET base == parse_formatted_value(node.func.value, postfix, TRUE)
            IN  /\ out.ok = base.ok
                /\ base.ok =>
                      out.s = base.s \o <<".">> \o node.func.attr \o <<"(">>
                              \o EachThenComma(Positionals(node))
                              \o EachThenComma(KeyValues(node.keywords))
                              \o <<")">>
    /\ (pc = "resolved" /\ node = FooCall) =>
            out.s = <<"f", "o", "o", "(", "1", ",", " ", "b", "a", "r", "=", "2", ")">>
    /\ (pc = "resolved" /\ node = ObjFooCall /\ postfix = <<>>) =>
            out.s = <<"o", "b", "j", ".", "f", "o", "o", "(", "1", ",",
                      "b", "a", "r", "=", "2", ",", ")">>

C6_Witness ==
    /\ pc = "resolved"
    /\ node.kind = "Call"
    /\ node.func.kind = "Attribute"
    /\ Len(node.args) = 1
    /\ Len(node.keywords) = 1
    /\ out.ok

RECURSIVE IsChain(_)
\* attributes taken on attributes ... taken on a name
IsChain(n) ==
    \/ n.kind = "Name"
    \/ n.kind = "Attribute" /\ IsChain(n.value)

RECURSIVE ChainParts(_)
\* the identifier and the attribute names, in source order
ChainParts(n) ==
    IF n.kind = "Name" THEN <<n.id>>
    ELSE Append(ChainParts(n.value), n.attr)

\* C7: with empty postfix, a chain of attributes on a name resolves to the
\* identifier and the attribute names in source order, joined by "."; x
\* gives "x" and x.y.z gives "x.y.z".
C7_AttributeChain ==
    /\ (pc = "resolved" /\ IsChain(node) /\ postfix = <<>>) =>
            /\ out.ok
            /\ out.s = Join(ChainParts(node), <<".">>)
    /\ (pc = "resolved" /\ node = XYZ /\ postfix = <<>>) =>
            out.s = <<"x", ".", "y", ".", "z">>
    /\ (pc = "resolved" /\ node = NameX /\ postfix = <<>>) => out.s = <<"x">>

C7_Witness ==
    /\ pc = "resolved"
    /\ node.kind = "Attribute"
    /\ node.value.kind = "Attribute"
    /\ node.value.value.kind = "Name"
    /\ node.attr # node.value.attr
    /\ postfix = <<>>
    /\ out.ok

\* C8: the postfix is empty at the root call of a segment; a child call's
\* postfix has the postfix its parent received as a suffix, and is longer
\* only under an Attribute node, where it is the attr name put in front; a
\* Name node makes no further call and puts the postfix into its result.
C8_PostfixAccumulator ==
    /\ \A i \in 1..Len(calls) :
          LET f == calls[i]
          IN  /\ f.caller = "FormattedValue" => f.postfix = <<>>
              /\ IsSuffix(f.recv, f.postfix)
              /\ (f.postfix # f.recv) <=> (f.caller = "Attribute")
              /\ f.caller = "Attribute" =>
                    /\ Len(f.postfix) > Len(f.recv)
                    /\ f.recv # <<>> =>
                          f.postfix[Len(f.postfix) - Len(f.recv)] = "."
    /\ (pc = "resolved" /\ node.kind = "Name") =>
            /\ out.calls = <<>>
            /\ IsSuffix(postfix, out.s)
            /\ postfix # <<>> => out.s = node.id \o <<".">> \o postfix

C8_Witness ==
    /\ pc = "resolved"
    /\ node.kind = "Attribute"
    /\ node.value.kind = "Attribute"
    /\ postfix # <<>>
    /\ Len(calls) = 2
    /\ Len(calls[2].postfix) > Len(calls[1].postfix)
    /\ calls[2].callee = "Name"

\* C9: with empty postfix, the attr of an Attribute node appears once,
\* directly after the text of its own base expression, whatever the base is.
C9_AttributeFollowsItsBase ==
    (pc = "resolved" /\ node.kind = "Attribute" /\ postfix = <<>> /\ out.ok) =>
        LET base == parse_formatted_value(node.value, <<>>, FALSE)
        IN  /\ base.ok
            /\ out.s = base.s \o <<".">> \o node.attr

HasClause(n) ==
    /\ n.kind \in {"ListComp", "DictComp"}
    /\ \E i \in 1..Len(n.generators) :
          n.generators[i].ifs # <<>> \/ n.generators[i].is_async

\* the comprehension without its filters and its async marks
WithoutClauses(n) ==
    [n EXCEPT !.generators =
        [i \in 1..Len(n.generators) |->
            [n.generators[i] EXCEPT !.ifs = <<>>, !.is_async = FALSE]]]

\* C10: a comprehension with a filter or an async generator either fails or
\* renders the clause: its text is never that of the comprehension without
\* the clause; and [i for i in items] gives "[i for i in items]".
C10_ComprehensionClausesKept ==
    /\ (pc = "resolved" /\ HasClause(node) /\ out.ok) =>
            out.s # parse_formatted_value(WithoutClauses(node), postfix, in_call).s
    /\ (pc = "resolved" /\ node = ItemsComp /\ postfix = <<>>) =>
            out.s = <<"[", "i", " ", "f", "o", "r", " ", "i", " ", "i", "n", " ",
                      "i", "t", "e", "m", "s", "]">>

====
